---- MODULE Spec2Model ----
(***************************************************************************)
(* A model of check-tms.py: the TileMapService client (catalog resolution, *)
(* coordinate mapping, tile fetching) and TMSCheck.run, which ties them    *)
(* together.                                                               *)
(*                                                                         *)
(* Conventions.                                                            *)
(*  - Text the code compares, concatenates or parses (the order attribute  *)
(*    of a tile set, tile URLs, file names) is a sequence of one-character *)
(*    strings, so that str(), int() and concatenation are computed.        *)
(*  - A number the code obtains with float() from an attribute is the      *)
(*    rational it denotes: coordinates and origins are integers,           *)
(*    units-per-pixel is a pair <<num, den>> with a power-of-two           *)
(*    denominator.  On such values, of the magnitudes used here, IEEE      *)
(*    double division followed by int() gives the truncated exact          *)
(*    quotient, which is what PyInt computes.                              *)
(*  - A raised Python exception is a record [exc, key]; key is the tuple   *)
(*    of values the exception carries (<<>> when it carries none).         *)
(***************************************************************************)
EXTENDS Integers, Sequences, FiniteSets, TLC

VARIABLES
    pc,        \* position of the run / of the caller
    options,   \* self.options: the parsed command line
    maps,      \* TileMapService.maps: the resolved catalog
    map,       \* the local variable `map` of TMSCheck.run
    center,    \* what the get_tilexy_from_coords call returned or raised
    tiles,     \* the list returned by point_to_box
    image,     \* what the last get_tile call returned or raised
    fetched,   \* the requests issued for tiles, in order, with their responses
    files,     \* the directory written by keep-files: file name -> tile
    consumed,  \* capability responses parsed into the catalog: [url, status]
    outcome,   \* how the run ended: ok, critical, or an uncaught exception
    server     \* the catalog the service publishes (what the documents say)

vars == <<pc, options, maps, map, center, tiles, image, fetched, files,
          consumed, outcome, server>>

\* ------------------------------------------------------------------ bounds

MaxCenter == 3     \* SpecBox: centers are drawn from -MaxCenter..MaxCenter
MaxBoxSide == 5    \* SpecBox: side lengths are drawn from 1..MaxBoxSide
MaxTileSets == 2   \* SpecCall: a map publishes 1..MaxTileSets tile sets
MaxSide == 3       \* Spec: --side-length is drawn from 1..MaxSide
MaxKeepSide == 11  \* SpecKeep: --side-length is drawn from 1..MaxKeepSide

\* ------------------------------------------------------------ text helpers

DigitChar == <<"0", "1", "2", "3", "4", "5", "6", "7", "8", "9">>

Digits == {DigitChar[i] : i \in 1..10}

RECURSIVE NatStr(_)
NatStr(n) ==
    IF n < 10 THEN <<DigitChar[n + 1]>>
    ELSE NatStr(n \div 10) \o <<DigitChar[(n % 10) + 1]>>

\* str(n) for an int n: decimal digits, a leading "-" when negative.
str(n) == IF n < 0 THEN <<"-">> \o NatStr(-n) ELSE NatStr(n)

\* ----------------------------------------------------- TMSCheck.point_to_box

RECURSIVE range(_, _)
range(lo, hi) == IF lo >= hi THEN <<>> ELSE <<lo>> \o range(lo + 1, hi)

\* [f(x, y) for x in xs for y in ys]: x outer, y inner.
RECURSIVE Product(_, _)
Product(xs, ys) ==
    IF xs = <<>> THEN <<>>
    ELSE [j \in 1..Len(ys) |-> <<Head(xs), ys[j]>>] \o Product(Tail(xs), ys)

point_to_box_drop_odd(x, y, side_length) ==
    LET offset == side_length \div 2
    IN  Product(range(x - offset, x + offset), range(y - offset, y + offset))

point_to_box_positive(x, y, side_length) ==
    LET offset == side_length \div 2
        odd    == side_length % 2
    IN  Product(range(x - offset + (1 - odd), x + offset + 1),
                range(y - offset + (1 - odd), y + offset + 1))

point_to_box(x, y, side_length) ==
    LET offset  == side_length \div 2
        odd     == side_length % 2
        x_range == range(x - offset, x + offset + odd)
        y_range == range(y - offset, y + offset + odd)
    IN  Product(x_range, y_range)

\* ------------------------------------------------------------- exceptions

NoKey == <<>>

Raise(exc, key) == [exc |-> exc, key |-> key, value |-> <<>>]

Return(value) == [exc |-> "", key |-> NoKey, value |-> value]

\* ------------------------------------------------------ numeric conversions

DigitVal(c) == (CHOOSE i \in 1..10 : DigitChar[i] = c) - 1

RECURSIVE DigitsVal(_)
DigitsVal(s) ==
    IF s = <<>> THEN 0
    ELSE 10 * DigitsVal(SubSeq(s, 1, Len(s) - 1)) + DigitVal(s[Len(s)])

RECURSIVE strip(_)
strip(s) ==
    IF s = <<>> THEN s
    ELSE IF Head(s) = " " THEN strip(Tail(s))
    ELSE IF s[Len(s)] = " " THEN strip(SubSeq(s, 1, Len(s) - 1))
    ELSE s

\* int(s) for a str s: surrounding blanks, an optional sign, then digits
\* (leading zeros allowed).  <<v>> is the value v; <<>> is ValueError.
int_str(s) ==
    LET t    == strip(s)
        sign == IF t # <<>> /\ Head(t) \in {"+", "-"} THEN Head(t) ELSE ""
        body == IF sign = "" THEN t ELSE Tail(t)
    IN  IF body = <<>> \/ \E i \in 1..Len(body) : body[i] \notin Digits
        THEN <<>>
        ELSE <<IF sign = "-" THEN -DigitsVal(body) ELSE DigitsVal(body)>>

\* a / b on the rationals <<num, den>> with den > 0; b > 0.
truediv(a, b) == <<a[1] * b[2], a[2] * b[1]>>

PyIntFloor(q) == q[1] \div q[2]

\* int(q) for a float q: the fractional part is dropped (toward zero).
PyInt(q) == IF q[1] >= 0 THEN q[1] \div q[2] ELSE -((-q[1]) \div q[2])

\* -------------------------------------------------------- TileMapService

\* [map for map in self.maps if map['title'] == map_title]
maps_titled(catalog, map_title) ==
    SelectSeq(catalog, LAMBDA m : m.title = map_title)

get_maplist(catalog) == [i \in 1..Len(catalog) |-> catalog[i].title]

\* {int(ts['order']): float(ts['units-per-pixel']) for ts in tilesets}: built
\* front to back, a later entry replacing an earlier one with the same key.
RECURSIVE ratios_for_orders(_)
ratios_for_orders(tilesets) ==
    IF tilesets = <<>> THEN <<>>
    ELSE LET n    == Len(tilesets)
             rest == ratios_for_orders(SubSeq(tilesets, 1, n - 1))
             k    == int_str(tilesets[n].order)[1]
         IN  [o \in DOMAIN rest \cup {k} |->
                 IF o = k THEN tilesets[n].upp ELSE rest[o]]

origin_used_published(m, forced_origin) == m.origin

origin_used(m, forced_origin) ==
    IF forced_origin = <<>> THEN m.origin ELSE forced_origin

get_tilexy_from_coords(catalog, map_title, order, x, y, forced_origin) ==
    LET found == maps_titled(catalog, map_title)
    IN  IF found = <<>> THEN Raise("IndexError", NoKey)
        ELSE
        LET m      == found[1]
            origin == origin_used(m, forced_origin)
            heigth == m.tileformat.height
            width  == m.tileformat.width
        IN  IF \E i \in 1..Len(m.tilesets) : int_str(m.tilesets[i].order) = <<>>
            THEN Raise("ValueError", NoKey)
            ELSE
            LET ratios == ratios_for_orders(m.tilesets)
            IN  IF order \notin DOMAIN ratios THEN Raise("KeyError", <<order>>)
                ELSE
                LET tx == PyInt(truediv(truediv(<<x - origin[1], 1>>, ratios[order]),
                                        <<width, 1>>))
                    ty == PyInt(truediv(truediv(<<y - origin[2], 1>>, ratios[order]),
                                        <<heigth, 1>>))
                IN  Return(<<tx, ty>>)

\* [tileset for tileset in map['tilesets'] if tileset['order'] == str(order)]
tilesets_ordered(m, order) ==
    SelectSeq(m.tilesets, LAMBDA ts : ts.order = str(order))

\* get_tile up to the request: the tile's URL, or the exception raised.
tile_url(catalog, map_title, order, x, y) ==
    LET found == maps_titled(catalog, map_title)
    IN  IF found = <<>> THEN Raise("IndexError", NoKey)
        ELSE
        LET m     == found[1]
            match == tilesets_ordered(m, order)
        IN  IF match = <<>> THEN Raise("IndexError", NoKey)
            ELSE Return(match[1].href \o <<"/">> \o str(x) \o <<"/">> \o str(y)
                        \o <<".">> \o m.tileformat.extension)

\* What requests.get may give for a tile: a response with a status code, with
\* or without a Content-Type header, or no response at all (ConnectionError).
TileResponses ==
    { [sent |-> TRUE,  status |-> 200, content_type |-> TRUE],
      [sent |-> TRUE,  status |-> 404, content_type |-> TRUE],
      [sent |-> TRUE,  status |-> 204, content_type |-> FALSE],
      [sent |-> FALSE, status |-> 0,   content_type |-> FALSE] }

\* get_tile from the request on, given the response to it.
tile_of(url, resp) ==
    IF ~resp.sent THEN Raise("ConnectionError", url)
    ELSE IF ~resp.content_type THEN Raise("KeyError", <<"content-type">>)
    ELSE Return([url |-> url, status_code |-> resp.status])

\* get_tile(map_title, order, x, y), given the response the request will get:
\* the request is issued only when the tile set was found.
get_tile(map_title, order, x, y, resp) ==
    LET u == tile_url(maps, map_title, order, x, y)
    IN  IF u.exc # ""
        THEN /\ image' = u
             /\ UNCHANGED fetched
        ELSE /\ image' = tile_of(u.value, resp)
             /\ fetched' = Append(fetched, [tile |-> <<x, y>>, url |-> u.value,
                                            sent |-> resp.sent,
                                            status |-> resp.status,
                                            content_type |-> resp.content_type])

\* ------------------------------------------------ TileMapService.__init__

RootUrl == <<"r">>

\* What requests.get may give for a capability document: a status code and a
\* body that is the capability document, some other XML document, or no XML
\* at all; or no response (ConnectionError).
CapResponses ==
    { [sent |-> TRUE,  status |-> 200, body |-> "capabilities"],
      [sent |-> TRUE,  status |-> 203, body |-> "capabilities"],
      [sent |-> TRUE,  status |-> 404, body |-> "xml"],
      [sent |-> TRUE,  status |-> 404, body |-> "text"],
      [sent |-> FALSE, status |-> 0,   body |-> "text"] }

\* The exception requests.get / etree.fromstring / xpath(...)[0] raises on a
\* response, "" when the document is read.  The status code is not looked at.
read_exc(resp) ==
    IF ~resp.sent THEN "ConnectionError"
    ELSE IF resp.body = "text" THEN "XMLSyntaxError"
    ELSE IF resp.body = "xml" THEN "IndexError"
    ELSE ""

Outcome(kind, exc, key, url, status) ==
    [kind |-> kind, exc |-> exc, key |-> key, url |-> url, status |-> status]

Running == Outcome("running", "", NoKey, <<>>, 0)

Uncaught(exc, key) == Outcome("exception", exc, key, <<>>, 0)

NotCalled == Raise("not called", NoKey)

\* lines 36-40: the root document.
FetchRoot ==
    /\ pc = "start"
    /\ \E resp \in CapResponses :
         IF read_exc(resp) # ""
         THEN /\ outcome' = Uncaught(read_exc(resp), NoKey)
              /\ pc' = "done"
              /\ UNCHANGED <<maps, consumed>>
         ELSE /\ maps' = [i \in 1..Len(server) |->
                             [title |-> server[i].title, href |-> server[i].href]]
              /\ consumed' = Append(consumed, [url |-> RootUrl, status |-> resp.status])
              /\ pc' = IF Len(server) = 0 THEN "resolved" ELSE "details"
              /\ UNCHANGED outcome
    /\ UNCHANGED <<options, map, center, tiles, image, fetched, files, server>>

\* lines 42-49, one iteration: the detail document of the next map.
FetchDetail ==
    /\ pc = "details"
    /\ LET i == Len(consumed)
       IN  \E resp \in CapResponses :
             IF read_exc(resp) # ""
             THEN /\ outcome' = Uncaught(read_exc(resp), NoKey)
                  /\ pc' = "done"
                  /\ UNCHANGED <<maps, consumed>>
             ELSE /\ maps' = [maps EXCEPT ![i] = server[i]]
                  /\ consumed' = Append(consumed, [url |-> maps[i].href,
                                                   status |-> resp.status])
                  /\ pc' = IF i = Len(maps) THEN "resolved" ELSE "details"
                  /\ UNCHANGED outcome
    /\ UNCHANGED <<options, map, center, tiles, image, fetched, files, server>>

\* ------------------------------------------------------------ TMSCheck.run

\* `for map in titles: print(map)` leaves the last title in `map`.
RECURSIVE for_map_in(_, _)
for_map_in(m, titles) ==
    IF titles = <<>> THEN m ELSE for_map_in(Head(titles), Tail(titles))

\* lines 122-130.
ListMaps ==
    /\ pc = "resolved"
    /\ map' = IF options.list_maps
              THEN for_map_in(options.map, get_maplist(maps))
              ELSE options.map
    /\ pc' = "locate"
    /\ UNCHANGED <<options, maps, center, tiles, image, fetched, files,
                   consumed, outcome, server>>

\* line 132.
LocateCenter ==
    /\ pc = "locate"
    /\ LET r == get_tilexy_from_coords(maps, map, options.zoom, options.point[1],
                                       options.point[2], options.origo)
       IN  /\ center' = r
           /\ IF r.exc # ""
              THEN /\ outcome' = Uncaught(r.exc, r.key)
                   /\ pc' = "done"
              ELSE /\ pc' = "box"
                   /\ UNCHANGED outcome
    /\ UNCHANGED <<options, maps, map, tiles, image, fetched, files, consumed,
                   server>>

\* line 134.
BuildBox ==
    /\ pc = "box"
    /\ tiles' = point_to_box(center.value[1], center.value[2], options.side_length)
    /\ pc' = "loop"
    /\ UNCHANGED <<options, maps, map, center, image, fetched, files, consumed,
                   outcome, server>>

\* 'tile{}{}.jpg'.format(tile[0], tile[1])
file_name(tile) == <<"tile">> \o str(tile[1]) \o str(tile[2]) \o <<".jpg">>

\* open(name, 'wb').write(data): the file is created or replaced.
write_file(dir, name, data) ==
    [n \in DOMAIN dir \cup {name} |-> IF n = name THEN data ELSE dir[n]]

\* lines 136-144, one iteration of the loop over tiles.
LoadTile ==
    /\ pc = "loop"
    /\ Len(fetched) < Len(tiles)
    /\ LET tile == tiles[Len(fetched) + 1]
       IN  \E resp \in TileResponses :
             /\ get_tile(map, options.zoom, tile[1], tile[2], resp)
             /\ IF image'.exc # ""
                THEN /\ outcome' = Uncaught(image'.exc, image'.key)
                     /\ pc' = "done"
                     /\ UNCHANGED files
                ELSE /\ files' = IF options.keep_files
                                 THEN write_file(files, file_name(tile), tile)
                                 ELSE files
                     /\ IF image'.value.status_code # 200
                        THEN /\ outcome' = Outcome("critical", "", NoKey,
                                                   image'.value.url,
                                                   image'.value.status_code)
                             /\ pc' = "done"
                        ELSE UNCHANGED <<outcome, pc>>
    /\ UNCHANGED <<options, maps, map, center, tiles, consumed, server>>

\* line 146.
Finish ==
    /\ pc = "loop"
    /\ Len(fetched) = Len(tiles)
    /\ outcome' = Outcome("ok", "", NoKey, <<>>, 0)
    /\ pc' = "done"
    /\ UNCHANGED <<options, maps, map, center, tiles, image, fetched, files,
                   consumed, server>>

\* ------------------------------------------------------- published catalogs

TileSetsOf(pairs) ==
    [i \in 1..Len(pairs) |-> [order |-> pairs[i][1], upp |-> pairs[i][2],
                              href |-> <<"h">> \o str(i)]]

Base ==
    [title |-> "Base", href |-> <<"b">>, origin |-> <<0, 0>>,
     tileformat |-> [width |-> 256, height |-> 256, extension |-> <<"png">>],
     tilesets |-> TileSetsOf(<< <<(<<"0">>), <<1, 1>> >>, <<(<<"1">>), <<1, 2>> >> >>)]

Aerial ==
    [title |-> "Aerial", href |-> <<"a">>, origin |-> <<-100, 50>>,
     tileformat |-> [width |-> 256, height |-> 512, extension |-> <<"jpg">>],
     tilesets |-> [i \in 1..2 |->
                     [TileSetsOf(<< <<(<<"0">>), <<2, 1>> >>,
                                    <<(<<"0", "1">>), <<1, 1>> >> >>)[i]
                      EXCEPT !.href = <<"g">> \o str(i)]]]

Options ==
    [map : {"Base", "Aerial"}, zoom : {0, 1, 5},
     point : {<<300, 300>>, <<-300, 700>>}, origo : {<<>>, <<256, 256>>},
     side_length : 1..MaxSide, list_maps : BOOLEAN, keep_files : BOOLEAN]

KeepOptions ==
    [map : {"Base"}, zoom : {0},
     point : {<<1600, 1400>>, <<-300, 700>>}, origo : {<<>>},
     side_length : 1..MaxKeepSide, list_maps : {FALSE}, keep_files : {TRUE}]

InitRun(worlds, opts) ==
    /\ pc = "start"
    /\ server \in worlds
    /\ options \in opts
    /\ maps = <<>>
    /\ map = ""
    /\ center = NotCalled
    /\ tiles = <<>>
    /\ image = NotCalled
    /\ fetched = <<>>
    /\ files = <<>>
    /\ consumed = <<>>
    /\ outcome = Running

Init == InitRun({<<Base>>, <<Base, Aerial>>}, Options)

Next ==
    \/ FetchRoot
    \/ FetchDetail
    \/ ListMaps
    \/ LocateCenter
    \/ BuildBox
    \/ LoadTile
    \/ Finish

Spec == Init /\ [][Next]_vars

InitKeep == InitRun({<<Base>>}, KeepOptions)

SpecKeep == InitKeep /\ [][Next]_vars

\* ------------------------------------------- point_to_box called on its own

IdleOptions ==
    [map |-> "", zoom |-> 0, point |-> <<0, 0>>, origo |-> <<>>,
     side_length |-> 1, list_maps |-> FALSE, keep_files |-> FALSE]

InitBox ==
    /\ pc = "box"
    /\ \E side \in 1..MaxBoxSide :
         options = [IdleOptions EXCEPT !.side_length = side]
    /\ \E cx \in -MaxCenter..MaxCenter, cy \in -MaxCenter..MaxCenter :
         center = Return(<<cx, cy>>)
    /\ server = <<>>
    /\ maps = <<>>
    /\ map = ""
    /\ tiles = <<>>
    /\ image = NotCalled
    /\ fetched = <<>>
    /\ files = <<>>
    /\ consumed = <<>>
    /\ outcome = Running

SpecBox == InitBox /\ [][BuildBox]_vars

\* ------------------- get_tilexy_from_coords and get_tile called on their own

TileSetPairs ==
    { <<(<<"0">>), <<1, 1>> >>, <<(<<"1">>), <<1, 2>> >>,
      <<(<<"0", "1">>), <<2, 1>> >>, <<(<<"1">>), <<2, 1>> >> }

CallCatalogs ==
    { << [title |-> "Base", href |-> <<"b">>, origin |-> shape[1],
          tileformat |-> [width |-> shape[2], height |-> shape[3],
                          extension |-> <<"png">>],
          tilesets |-> TileSetsOf(pairs)] >> :
        shape \in { <<(<<0, 0>>), 256, 256>>, <<(<<-100, 50>>), 256, 512>> },
        pairs \in UNION { [1..n -> TileSetPairs] : n \in 1..MaxTileSets } }

CallOptions ==
    [map : {"Base", "Nope"}, zoom : {0, 1, 5},
     point : {<<300, 300>>, <<-300, 700>>, <<-1, -256>>, <<511, -513>>, <<0, 256>>},
     origo : {<<>>, <<1, 1>>, <<256, -512>>},
     side_length : {1}, list_maps : {FALSE}, keep_files : {FALSE}]

InitCall ==
    /\ pc = "call"
    /\ maps \in CallCatalogs
    /\ server = maps
    /\ options \in CallOptions
    /\ map = options.map
    /\ center = NotCalled
    /\ tiles = <<>>
    /\ image = NotCalled
    /\ fetched = <<>>
    /\ files = <<>>
    /\ consumed = <<>>
    /\ outcome = Running

CallGetTileXY ==
    /\ pc = "call"
    /\ center' = get_tilexy_from_coords(maps, map, options.zoom, options.point[1],
                                        options.point[2], options.origo)
    /\ pc' = "mapped"
    /\ UNCHANGED <<options, maps, map, tiles, image, fetched, files, consumed,
                   outcome, server>>

CallGetTile ==
    /\ pc = "mapped"
    /\ \E t \in {<<0, 0>>, <<-3, 12>>}, resp \in TileResponses :
         get_tile(map, options.zoom, t[1], t[2], resp)
    /\ pc' = "called"
    /\ UNCHANGED <<options, maps, map, center, tiles, files, consumed, outcome,
                   server>>

NextCall == CallGetTileXY \/ CallGetTile

SpecCall == InitCall /\ [][NextCall]_vars

\* ================================================================== claims

TileSeq(reqs) == [i \in 1..Len(reqs) |-> reqs[i].tile]

\* C1 (as claimed): the tile requests issued are a prefix of the box in its
\* enumeration order; a tile answered with a status other than 200 is the last
\* one requested and the run ends critical, naming that tile's URL and status;
\* ok is reported only after every tile of the box was answered 200.
C1_FailFastNamesTile ==
    /\ Len(fetched) <= Len(tiles)
    /\ TileSeq(fetched) = SubSeq(tiles, 1, Len(fetched))
    /\ \A i \in 1..Len(fetched) :
         (fetched[i].sent /\ fetched[i].status # 200) =>
            /\ i = Len(fetched)
            /\ outcome = Outcome("critical", "", NoKey, fetched[i].url,
                                 fetched[i].status)
    /\ outcome.kind = "ok" =>
         /\ Len(fetched) = Len(tiles)
         /\ \A i \in 1..Len(fetched) : fetched[i].sent /\ fetched[i].status = 200

\* Supporting C1: what holds of the tile requests whatever the responses are.
\* They are a prefix of the box in enumeration order, a tile not answered 200
\* is the last one requested and ends the run, and ok needs every tile
\* answered 200.
FetchesFollowEnumeration ==
    /\ Len(fetched) <= Len(tiles)
    /\ TileSeq(fetched) = SubSeq(tiles, 1, Len(fetched))
    /\ \A i \in 1..Len(fetched) :
         (~fetched[i].sent \/ fetched[i].status # 200) =>
            /\ i = Len(fetched)
            /\ pc = "done"
            /\ outcome.kind \in {"critical", "exception"}
    /\ outcome.kind = "ok" =>
         /\ Len(fetched) = Len(tiles)
         /\ \A i \in 1..Len(fetched) : fetched[i].sent /\ fetched[i].status = 200

BoxBuilt == pc = "loop"

BoxSet == {tiles[i] : i \in 1..Len(tiles)}

\* C2: point_to_box returns side_length^2 pairs, pairwise distinct.
C2_BoxSize ==
    BoxBuilt =>
        /\ Len(tiles) = options.side_length * options.side_length
        /\ Cardinality(BoxSet) = options.side_length * options.side_length

C2_Witness ==
    /\ BoxBuilt
    /\ options.side_length = 4
    /\ center.value = <<-2, 3>>

\* The columns (axis 1) or rows (axis 2) of the box on one side of the center.
Below(axis) == {v \in {t[axis] : t \in BoxSet} : v < center.value[axis]}

Above(axis) == {v \in {t[axis] : t \in BoxSet} : v > center.value[axis]}

OddSymmetric ==
    options.side_length % 2 = 1 =>
        \A axis \in {1, 2} : Cardinality(Below(axis)) = Cardinality(Above(axis))

\* C3 (as claimed): the box is symmetric around the center when side_length
\* is odd, and when it is even the positive side of the center has exactly one
\* more row/column than the negative side.
C3_PositiveBiased ==
    BoxBuilt =>
        /\ OddSymmetric
        /\ options.side_length % 2 = 0 =>
             \A axis \in {1, 2} :
                Cardinality(Above(axis)) = Cardinality(Below(axis)) + 1

\* C3 (amended): the box is symmetric around the center when side_length is
\* odd, and when it is even the negative side of the center has exactly one
\* more row/column than the positive side.
C3_NegativeBiased ==
    BoxBuilt =>
        /\ OddSymmetric
        /\ options.side_length % 2 = 0 =>
             \A axis \in {1, 2} :
                Cardinality(Below(axis)) = Cardinality(Above(axis)) + 1

C3_Witness ==
    /\ BoxBuilt
    /\ options.side_length = 2
    /\ center.value = <<1, -1>>

Abs(v) == IF v < 0 THEN -v ELSE v

\* t is the quotient d / upp / size with its fractional part dropped: the
\* integer of the same sign as d, nearest to zero, within one of the quotient.
IsTruncatedQuotient(t, d, upp, size) ==
    /\ Abs(t) * upp[1] * size <= Abs(d) * upp[2]
    /\ Abs(d) * upp[2] < (Abs(t) + 1) * upp[1] * size
    /\ t > 0 => d > 0
    /\ t < 0 => d < 0

Called == pc \in {"mapped", "called"}

TheMap == maps_titled(maps, map)[1]

\* The tile sets of the map whose order attribute denotes the requested order.
Denoting(order) ==
    {i \in 1..Len(TheMap.tilesets) : int_str(TheMap.tilesets[i].order) = <<order>>}

OrdersParse ==
    \A i \in 1..Len(TheMap.tilesets) : int_str(TheMap.tilesets[i].order) # <<>>

\* The map is in the catalog and holds a tile set for the requested order (the
\* last one, were the order published more than once).
Mappable ==
    /\ maps_titled(maps, map) # <<>>
    /\ OrdersParse
    /\ Denoting(options.zoom) # {}

UnitsPerPixel ==
    LET last == CHOOSE i \in Denoting(options.zoom) :
                    \A j \in Denoting(options.zoom) : j <= i
    IN  TheMap.tilesets[last].upp

IsTileIndex(origin) ==
    /\ center.exc = ""
    /\ IsTruncatedQuotient(center.value[1], options.point[1] - origin[1],
                           UnitsPerPixel, TheMap.tileformat.width)
    /\ IsTruncatedQuotient(center.value[2], options.point[2] - origin[2],
                           UnitsPerPixel, TheMap.tileformat.height)

ScenarioA ==
    /\ Len(maps) = 1
    /\ map = "Base"
    /\ TheMap.origin = <<0, 0>>
    /\ TheMap.tileformat.width = 256
    /\ TheMap.tileformat.height = 256
    /\ UnitsPerPixel = <<1, 1>>
    /\ options.zoom = 0
    /\ options.point = <<300, 300>>

\* C4: for a map and order of the catalog, get_tilexy_from_coords returns
\* tx = trunc((x - origin.x) / unitsPerPixel / tileWidth) and
\* ty = trunc((y - origin.y) / unitsPerPixel / tileHeight), trunc dropping the
\* fractional part also of a negative quotient; in Scenario A it is (1, 1).
C4_TileIndexTruncates ==
    (Called /\ Mappable /\ options.origo = <<>>) =>
        /\ IsTileIndex(TheMap.origin)
        /\ ScenarioA => center.value = <<1, 1>>

C4_Witness ==
    /\ Called
    /\ Mappable
    /\ options.origo = <<>>
    /\ options.point = <<-300, 700>>
    /\ TheMap.origin = <<-100, 50>>
    /\ TheMap.tileformat.width = 256
    /\ TheMap.tileformat.height = 512
    /\ UnitsPerPixel = <<1, 1>>
    /\ center.value = <<0, 1>>

\* C5 (as claimed): no capability response with a status other than 200 is
\* parsed into the catalog.
C5_OnlySuccessConsumed ==
    \A i \in 1..Len(consumed) : consumed[i].status = 200

\* The requested order is in no form among the map's tile sets.
OrderAbsent ==
    /\ maps_titled(maps, map) # <<>>
    /\ OrdersParse
    /\ Denoting(options.zoom) = {}
    /\ tilesets_ordered(TheMap, options.zoom) = <<>>

NamesOrder(r) ==
    /\ r.exc \in {"KeyError", "IndexError"}
    /\ r.key = <<options.zoom>>

\* C6 (as claimed): for an order absent from the map's tile sets both
\* get_tilexy_from_coords and get_tile raise a not-found error naming the
\* order, and no request is issued.
C6_AbsentOrderNamed ==
    (pc = "called" /\ OrderAbsent) =>
        /\ NamesOrder(center)
        /\ NamesOrder(image)
        /\ fetched = <<>>

\* C7 (as claimed): with keep-files, no tile's file is replaced by the file of
\* another tile of the run: every tile written still owns its file.
C7_NoFileOverwritten ==
    options.keep_files =>
        \A i \in 1..Len(fetched) :
            (fetched[i].sent /\ fetched[i].content_type) =>
                /\ file_name(fetched[i].tile) \in DOMAIN files
                /\ files[file_name(fetched[i].tile)] = fetched[i].tile

\* C8 (as claimed): get_tile finds a tile set for the order exactly when
\* get_tilexy_from_coords does, and then both use the same entry.
C8_SameTileSet ==
    (pc = "called" /\ maps_titled(maps, map) # <<>>) =>
        /\ (center.exc = "") <=> (fetched # <<>>)
        /\ (center.exc = "" /\ fetched # <<>>) =>
              LET entry == tilesets_ordered(TheMap, options.zoom)[1]
              IN  /\ entry.upp = UnitsPerPixel
                  /\ entry = TheMap.tilesets[CHOOSE i \in Denoting(options.zoom) :
                                \A j \in Denoting(options.zoom) : j <= i]

Forced == options.origo # <<>>

PublishedIndex ==
    get_tilexy_from_coords(maps, map, options.zoom, options.point[1],
                           options.point[2], <<>>)

\* C9 (as claimed): a forced origin that differs from the published one
\* gives a (tx, ty) different from the one of the published origin.
C9_ForcedOriginChangesIndex ==
    (Called /\ Mappable /\ Forced /\ options.origo # TheMap.origin) =>
        center.value # PublishedIndex.value

\* C9 (amended): a forced origin takes the place of the published one: the
\* (tx, ty) returned is the truncated quotient of the point's offset from the
\* forced origin (and may equal the one of the published origin).
C9_ForcedOriginUsed ==
    (Called /\ Mappable /\ Forced) => IsTileIndex(options.origo)

C9_Witness ==
    /\ Called
    /\ Mappable
    /\ Forced
    /\ options.origo # TheMap.origin
    /\ center.value # PublishedIndex.value

\* C10 (as claimed): the map title the run passes to get_tilexy_from_coords
\* and to get_tile is the --map option, with or without --list-maps.
C10_TargetMapKept ==
    pc \in {"locate", "box", "loop"} => map = options.map

====
